---- MODULE Spec2Model ----
(***************************************************************************)
(* Token lifecycle of RedditClient (src/RedditClient.ts): the cached token, *)
(* the in-flight promise, getToken, requestToken and request, under the     *)
(* JavaScript run-to-completion scheduling of async functions.  One action  *)
(* is one uninterrupted run of code between two suspension points (await).  *)
(***************************************************************************)
EXTENDS Integers, Sequences, FiniteSets, TLC

\* ---------------------------------------------------------------- bounds
NumCallers == 3        \* concurrent callers of getToken
MaxRefresh == 3        \* requestToken invocations explored
MaxTicks == 2          \* clock ticks explored
\* The scope in which fairness and request calls are explored.
NumCallersSmall == 2   \* concurrent callers
MaxRefreshSmall == 2   \* requestToken invocations
MaxTicksSmall == 1     \* clock ticks

\* ------------------------------------------------------ program constants
SafetyMarginMs == 60000    \* Date.now() + 60000
MsPerSecond == 1000        \* expires_in * 1000

\* The clock advances in steps of 30 s.
TickMs == 30 * MsPerSecond

\* ------------------------------------------------------------ value sets
None == "none"             \* undefined / null of a string-valued field
Callers == 1..NumCallers
ConfigRefreshTokens == {None, "", "rt0"}
Usernames == {None, "u"}
Passwords == {None, "pw"}
ExpiresInValues == {60, 120}
NoAccessToken == 0         \* response.data.access_token is undefined
NaN == -1                  \* undefined * 1000, and every sum with it
ConfigError == "Either refreshToken or username/password must be provided"
ApiError == "Request failed with status code 403"   \* thrown by apiClient.request

\* The token endpoint issues a new access token with each grant, and the
\* refresh token it may include is a new one too.
AccessTokenOf(i) == i
RefreshTokenOf(i) == "rt" \o ToString(i)
\* The transport throws a new Error object with each failed POST.
TransportErrorOf(i) == "E" \o ToString(i)

\* this.token = null
NoToken == [absent |-> TRUE]

VARIABLES
    config,        \* this.config, fixed at construction
    now,           \* Date.now(), in ms
    token,         \* this.token
    tokenPromise,  \* this.tokenPromise: 0 (null) or the index of a promise
    promises,      \* the promises returned by requestToken, by invocation
    requests,      \* what each requestToken invocation sent and received
    callers,       \* the suspended getToken or request invocation of each caller, if any
    lastReturn,    \* the outcome of the getToken invocation that ended in the last step
    lastRequest    \* what the request invocation that ran in the last step did

vars == <<config, now, token, tokenPromise, promises, requests, callers, lastReturn,
          lastRequest>>

\* ------------------------------------------------------- pure operators

\* JavaScript truthiness of a string | undefined value.
Truthy(v) == v # None /\ v # ""

\* a || b
OrElse(a, b) == IF Truthy(a) THEN a ELSE b

\* this.token?.refreshToken
TokenRefreshToken(tok) == IF tok = NoToken THEN None ELSE tok.refreshToken

\* Mutant: the margin is applied twice.
IsFreshDoubleMargin(tok, t) ==
    tok # NoToken /\ tok.expiresAt # NaN /\ tok.expiresAt > t + 2 * SafetyMarginMs

\* Mutant: the margin is left out.
IsFreshNoMargin(tok, t) == tok # NoToken /\ tok.expiresAt # NaN /\ tok.expiresAt > t

\* this.token && this.token.expiresAt > Date.now() + 60000 (a comparison
\* with NaN is false)
IsFresh(tok, t) == tok # NoToken /\ tok.expiresAt # NaN /\ tok.expiresAt > t + SafetyMarginMs

\* Mutant: the password grant is tried first.
ChooseGrantPasswordFirst(tok, cfg) ==
    IF Truthy(cfg.username) /\ Truthy(cfg.password) THEN "password"
    ELSE IF Truthy(TokenRefreshToken(tok)) \/ Truthy(cfg.refreshToken) THEN "refresh_token"
    ELSE "none"

\* Mutant: the password grant is chosen when a username or a password is set.
ChooseGrantEitherCredential(tok, cfg) ==
    IF Truthy(TokenRefreshToken(tok)) \/ Truthy(cfg.refreshToken) THEN "refresh_token"
    ELSE IF Truthy(cfg.username) \/ Truthy(cfg.password) THEN "password"
    ELSE "none"

\* The grant chosen by requestToken: "refresh_token", "password", or "none"
\* when it throws before any request.
ChooseGrant(tok, cfg) ==
    IF Truthy(TokenRefreshToken(tok)) \/ Truthy(cfg.refreshToken) THEN "refresh_token"
    ELSE IF Truthy(cfg.username) /\ Truthy(cfg.password) THEN "password"
    ELSE "none"

\* The refresh_token parameter of the request body (None: not in the body).
RequestRefreshToken(tok, cfg) ==
    IF ChooseGrant(tok, cfg) = "refresh_token"
    THEN OrElse(OrElse(TokenRefreshToken(tok), cfg.refreshToken), "")
    ELSE None

\* Mutant: the refresh token of the cached token is not carried forward.
CarriedRefreshTokenDropped(resp, tok, cfg) == OrElse(resp.refresh_token, cfg.refreshToken)

\* The refreshToken field of the RedditToken built from a response.
CarriedRefreshToken(resp, tok, cfg) ==
    OrElse(resp.refresh_token, OrElse(TokenRefreshToken(tok), cfg.refreshToken))

\* Mutant: expires_in is taken for milliseconds.
ExpiresAtNoScale(resp, t) == IF resp.expires_in = NaN THEN NaN ELSE t + resp.expires_in

\* The expiresAt field of the RedditToken built from a response received at t.
ExpiresAt(resp, t) ==
    IF resp.expires_in = NaN THEN NaN ELSE t + resp.expires_in * MsPerSecond

\* Mutant: the new fields are merged into the cached record, whose expiresAt
\* is kept.
BuildTokenKeepExpiry(resp, tok, cfg, t) ==
    [accessToken  |-> resp.access_token,
     expiresIn    |-> resp.expires_in,
     refreshToken |-> CarriedRefreshToken(resp, tok, cfg),
     expiresAt    |-> IF tok = NoToken THEN ExpiresAt(resp, t) ELSE tok.expiresAt]

\* The RedditToken built from a response received at time t (tokenType and
\* scope are copied from the response and read nowhere).
BuildToken(resp, tok, cfg, t) ==
    [accessToken  |-> resp.access_token,
     expiresIn    |-> resp.expires_in,
     refreshToken |-> CarriedRefreshToken(resp, tok, cfg),
     expiresAt    |-> ExpiresAt(resp, t)]

\* catch (error) { console.error(...); throw error; } in requestToken
RequestTokenCatch(e) == e

\* Mutant: the starter throws a new error that wraps the cause.
GetTokenCatchWrap(e) == "AuthError: " \o e

\* catch (error) { console.error(...); throw error; } in getToken
GetTokenCatch(e) == e

\* Mutant: the handle is not cleared.
GetTokenFinallyMissing(tp) == tp

\* finally { this.tokenPromise = null; }
GetTokenFinally(tp) == 0

\* Mutant: the cache is cleared when the refresh fails.
TokenClearedAfterFailure(tok) == NoToken

\* The cache after a rejected await in getToken: this.token is not assigned.
TokenAfterFailure(tok) == tok

\* catch (error) { console.error(...); throw error; } in getApiClient
GetApiClientCatch(e) == e

\* catch (error) { console.error(...); throw error; } in request
RequestCatch(e) == e

\* Mutant: the Authorization header is built from the cached token, not from
\* the value getToken returned.
BearerFromCache(accessToken, tok) == IF tok = NoToken THEN NoAccessToken ELSE tok.accessToken

\* Authorization: `Bearer ${token}`, token being what getToken returned; tok
\* is this.token, which getApiClient does not read.
Bearer(accessToken, tok) == accessToken

\* Mutant: a failed API call discards the cached token.
TokenDroppedAfterApiFailure(tok) == NoToken

\* The cache after apiClient.request rejects: the catch block of request
\* assigns nothing.
TokenAfterApiFailure(tok) == tok

\* ------------------------------------------------------------------ Init

Configs ==
    [refreshToken : ConfigRefreshTokens, username : Usernames, password : Passwords]

\* op is the public method the caller is in: "getToken", or "request", which
\* reaches getToken through getApiClient.
IdleCaller == [pc |-> "idle", p |-> 0, op |-> "none"]

Suspended(pc, p, op) == [pc |-> pc, p |-> p, op |-> op]

NoReturn ==
    [via |-> "none", kind |-> "none", accessToken |-> NoAccessToken, expiresAt |-> 0,
     error |-> None, p |-> 0]

\* getToken returns tok.accessToken; p is the promise it awaited, if any, and
\* expiresAt the expiry of the RedditToken the access token was read from.
Returned(via, p, tok) ==
    [via |-> via, kind |-> "token", accessToken |-> tok.accessToken,
     expiresAt |-> tok.expiresAt, error |-> None, p |-> p]

\* getToken throws e.
Thrown(via, p, e) ==
    [via |-> via, kind |-> "error", accessToken |-> NoAccessToken, expiresAt |-> 0,
     error |-> e, p |-> p]

NoRequest == [kind |-> "none", bearer |-> NoAccessToken, error |-> None]

\* request, lines 151-152 after getApiClient, lines 131-139: the API request
\* is sent with the access token getToken returned.
Issued(accessToken) ==
    [kind |-> "issued", bearer |-> Bearer(accessToken, token), error |-> None]

\* request throws e.
Failed(e) == [kind |-> "error", bearer |-> NoAccessToken, error |-> e]

\* request returns response.data.
Data == [kind |-> "data", bearer |-> NoAccessToken, error |-> None]

\* Where caller c stands once its getToken invocation has returned: outside,
\* or in request at line 152, awaiting the API response.
AfterReturn(c) ==
    IF callers[c].op = "request" THEN Suspended("await152", 0, "request") ELSE IdleCaller

\* What request did in the step in which getToken returned accessToken to it.
RequestAfterReturn(c, accessToken) ==
    IF callers[c].op = "request" THEN Issued(accessToken) ELSE NoRequest

\* What request did in the step in which getToken threw e to it: getApiClient
\* and request rethrow, no API request is sent.
RequestAfterThrow(c, e) ==
    IF callers[c].op = "request" THEN Failed(RequestCatch(GetApiClientCatch(e))) ELSE NoRequest

Init ==
    /\ config \in Configs
    /\ now = 0
    /\ token = NoToken
    /\ tokenPromise = 0
    /\ promises = << >>
    /\ requests = << >>
    /\ callers = [c \in Callers |-> IdleCaller]
    /\ lastReturn = NoReturn
    /\ lastRequest = NoRequest

\* --------------------------------------------------------------- actions

\* Caller c is not inside getToken.  Callers run the same code and differ in
\* nothing else, so a new invocation is taken by the least idle caller.
CanCall(c) ==
    /\ callers[c].pc = "idle"
    /\ \A d \in Callers : d < c => callers[d].pc # "idle"

\* The promise requestToken returns after running up to its first await
\* (lines 79-107): rejected at once when no grant is usable, pending otherwise.
NewPromise(c) ==
    LET grant == ChooseGrant(token, config) IN
    [state     |-> IF grant = "none" THEN "rejected" ELSE "pending",
     value     |-> NoToken,
     reason    |-> IF grant = "none" THEN ConfigError ELSE None,
     settledAt |-> 0,
     reactions |-> <<c>>]

\* What requestToken sends before its first await (lines 83-107): the POST
\* with the grant's body, or nothing when it throws at line 97.
NewRequest ==
    LET grant == ChooseGrant(token, config) IN
    [grant         |-> grant,
     refresh_token |-> RequestRefreshToken(token, config),
     post          |-> IF grant = "none" THEN "none" ELSE "pending",
     access_token  |-> NoAccessToken,
     included      |-> None,
     thrown        |-> None]

\* Mutant: without lines 51-54, a caller that finds a stale or absent token
\* starts a refresh of its own while one is in flight.
GetTokenIgnoreHandle(c, op) ==
    /\ CanCall(c)
    /\ tokenPromise # 0
    /\ Len(promises) < MaxRefresh
    /\ promises' = Append(promises, NewPromise(c))
    /\ requests' = Append(requests, NewRequest)
    /\ tokenPromise' = Len(promises) + 1
    /\ callers' = [callers EXCEPT ![c] = Suspended("await65", Len(promises) + 1, op)]
    /\ lastReturn' = NoReturn
    /\ lastRequest' = NoRequest
    /\ UNCHANGED <<config, now, token>>

\* Mutant: a caller that finds a refresh in flight and a token in the cache
\* returns the cached token instead of waiting.
GetTokenAttachOrStale(c, op) ==
    /\ CanCall(c)
    /\ tokenPromise # 0
    /\ IF token = NoToken
       THEN /\ callers' = [callers EXCEPT ![c] = Suspended("await52", tokenPromise, op)]
            /\ promises' = [promises EXCEPT ![tokenPromise].reactions = Append(@, c)]
            /\ lastReturn' = NoReturn
       ELSE /\ lastReturn' = Returned("cache", 0, token)
            /\ UNCHANGED <<callers, promises>>
    /\ lastRequest' = NoRequest
    /\ UNCHANGED <<config, now, token, tokenPromise, requests>>

\* getToken, lines 51-52: a promise is on the handle; await it.  op is the
\* method the caller entered through: request (line 151) calls getApiClient,
\* which calls getToken (line 131), in the same run.
GetTokenAttach(c, op) ==
    /\ CanCall(c)
    /\ tokenPromise # 0
    /\ callers' = [callers EXCEPT ![c] = Suspended("await52", tokenPromise, op)]
    /\ promises' = [promises EXCEPT ![tokenPromise].reactions = Append(@, c)]
    /\ lastReturn' = NoReturn
    /\ lastRequest' = NoRequest
    /\ UNCHANGED <<config, now, token, tokenPromise, requests>>

\* getToken, lines 57-58: the cached token is still valid; return it.  A
\* caller in request goes on to send the API request with it (lines 131-139
\* and 151-152; the awaits in between resume in the same turn of the event
\* loop and read nothing of this object).
GetTokenCached(c, op) ==
    /\ CanCall(c)
    /\ tokenPromise = 0
    /\ IsFresh(token, now)
    /\ lastReturn' = Returned("cache", 0, token)
    /\ callers' = [callers EXCEPT ![c] =
           IF op = "request" THEN Suspended("await152", 0, op) ELSE IdleCaller]
    /\ lastRequest' = IF op = "request" THEN Issued(token.accessToken) ELSE NoRequest
    /\ UNCHANGED <<config, now, token, tokenPromise, promises, requests>>

\* Mutant: the handle is not set before the first suspension point.
GetTokenRefreshUnset(c, op) ==
    /\ CanCall(c)
    /\ tokenPromise = 0
    /\ ~IsFresh(token, now)
    /\ Len(promises) < MaxRefresh
    /\ promises' = Append(promises, NewPromise(c))
    /\ requests' = Append(requests, NewRequest)
    /\ callers' = [callers EXCEPT ![c] = Suspended("await65", Len(promises) + 1, op)]
    /\ lastReturn' = NoReturn
    /\ lastRequest' = NoRequest
    /\ UNCHANGED <<config, now, token, tokenPromise>>

\* Mutant: lines 56-59 are missing, a refresh starts though the token is fresh.
GetTokenRefreshAlways(c, op) ==
    /\ CanCall(c)
    /\ tokenPromise = 0
    /\ Len(promises) < MaxRefresh
    /\ promises' = Append(promises, NewPromise(c))
    /\ requests' = Append(requests, NewRequest)
    /\ tokenPromise' = Len(promises) + 1
    /\ callers' = [callers EXCEPT ![c] = Suspended("await65", Len(promises) + 1, op)]
    /\ lastReturn' = NoReturn
    /\ lastRequest' = NoRequest
    /\ UNCHANGED <<config, now, token>>

\* getToken, lines 62-65: start a refresh, set the handle, await the promise.
GetTokenRefresh(c, op) ==
    /\ CanCall(c)
    /\ tokenPromise = 0
    /\ ~IsFresh(token, now)
    /\ Len(promises) < MaxRefresh
    /\ promises' = Append(promises, NewPromise(c))
    /\ requests' = Append(requests, NewRequest)
    /\ tokenPromise' = Len(promises) + 1
    /\ callers' = [callers EXCEPT ![c] = Suspended("await65", Len(promises) + 1, op)]
    /\ lastReturn' = NoReturn
    /\ lastRequest' = NoRequest
    /\ UNCHANGED <<config, now, token>>

\* A settled promise still has reactions to run.  They are microtasks: they
\* run before the event loop delivers another network response.
MicrotasksPending ==
    \E p \in 1..Len(promises) :
        promises[p].state \in {"fulfilled", "rejected"} /\ promises[p].reactions # << >>

\* A settled promise whose reactions have all run is referenced by nothing.
Collected ==
    [state |-> "collected", value |-> NoToken, reason |-> None, settledAt |-> 0,
     reactions |-> << >>]

\* The bodies the token endpoint may answer the POST of invocation i with
\* under a success status: a token response, or a body that lacks access_token
\* or expires_in (expires_in undefined is read as NaN by line 110).
Responses(i) ==
    [access_token : {AccessTokenOf(i)}, expires_in : ExpiresInValues,
     refresh_token : {None, RefreshTokenOf(i)}]
    \cup [access_token : {NoAccessToken}, expires_in : {120}, refresh_token : {None}]
    \cup [access_token : {AccessTokenOf(i)}, expires_in : {NaN}, refresh_token : {None}]

\* requestToken, lines 107-119: the POST of invocation i succeeds.
PostOk(i, resp) ==
    /\ requests[i].post = "pending"
    /\ ~MicrotasksPending
    /\ promises' = [promises EXCEPT ![i] =
           [@ EXCEPT !.state = "fulfilled",
                     !.value = BuildToken(resp, token, config, now),
                     !.settledAt = now]]
    /\ requests' = [requests EXCEPT ![i] =
           [@ EXCEPT !.post = "ok",
                     !.access_token = resp.access_token,
                     !.included = resp.refresh_token]]
    /\ lastReturn' = NoReturn
    /\ lastRequest' = NoRequest
    /\ UNCHANGED <<config, now, token, tokenPromise, callers>>

\* Mutant: the catch block of requestToken sends the POST once more before
\* it rethrows.
PostFailRetry(i, e) ==
    /\ requests[i].post = "pending"
    /\ ~MicrotasksPending
    /\ promises' = Append([promises EXCEPT ![i] =
           [@ EXCEPT !.state = "rejected", !.reason = RequestTokenCatch(e)]], Collected)
    /\ requests' = Append([requests EXCEPT ![i] = [@ EXCEPT !.post = "error", !.thrown = e]],
                          requests[i])
    /\ lastReturn' = NoReturn
    /\ lastRequest' = NoRequest
    /\ UNCHANGED <<config, now, token, tokenPromise, callers>>

\* requestToken, lines 120-123: the POST of invocation i fails with e.
PostFail(i, e) ==
    /\ requests[i].post = "pending"
    /\ ~MicrotasksPending
    /\ promises' = [promises EXCEPT ![i] =
           [@ EXCEPT !.state = "rejected", !.reason = RequestTokenCatch(e)]]
    /\ requests' = [requests EXCEPT ![i] = [@ EXCEPT !.post = "error", !.thrown = e]]
    /\ lastReturn' = NoReturn
    /\ lastRequest' = NoRequest
    /\ UNCHANGED <<config, now, token, tokenPromise, callers>>

\* The next reaction of a settled promise is the continuation of caller c.
NextReaction(c) ==
    LET p == callers[c].p IN
    /\ p # 0
    /\ promises[p].state \in {"fulfilled", "rejected"}
    /\ promises[p].reactions # << >>
    /\ Head(promises[p].reactions) = c

\* Mutant: only the first reaction of a settled promise runs, the others are
\* dropped.
PopReactionDropRest(p) == [promises EXCEPT ![p] = Collected]

\* The promise after its next reaction has run.
PopReaction(p) ==
    [promises EXCEPT ![p] =
        IF Len(@.reactions) = 1 THEN Collected ELSE [@ EXCEPT !.reactions = Tail(@)]]

\* getToken, lines 65-66 and 70-72: the starter resumes with the token.
StarterReturns(c) ==
    LET p == callers[c].p IN
    /\ callers[c].pc = "await65"
    /\ NextReaction(c)
    /\ promises[p].state = "fulfilled"
    /\ token' = promises[p].value
    /\ callers' = [callers EXCEPT ![c] = AfterReturn(c)]
    /\ lastReturn' = Returned("start", p, promises[p].value)
    /\ lastRequest' = RequestAfterReturn(c, promises[p].value.accessToken)
    /\ tokenPromise' = GetTokenFinally(tokenPromise)
    /\ promises' = PopReaction(p)
    /\ UNCHANGED <<config, now, requests>>

\* getToken, lines 65 and 67-72: the starter resumes with the rejection.
StarterThrows(c) ==
    LET p == callers[c].p IN
    /\ callers[c].pc = "await65"
    /\ NextReaction(c)
    /\ promises[p].state = "rejected"
    /\ token' = TokenAfterFailure(token)
    /\ callers' = [callers EXCEPT ![c] = IdleCaller]
    /\ lastReturn' = Thrown("start", p, GetTokenCatch(promises[p].reason))
    /\ lastRequest' = RequestAfterThrow(c, GetTokenCatch(promises[p].reason))
    /\ tokenPromise' = GetTokenFinally(tokenPromise)
    /\ promises' = PopReaction(p)
    /\ UNCHANGED <<config, now, requests>>

\* getToken, lines 52-53: a waiter resumes with the token of the promise.
WaiterReturns(c) ==
    LET p == callers[c].p IN
    /\ callers[c].pc = "await52"
    /\ NextReaction(c)
    /\ promises[p].state = "fulfilled"
    /\ callers' = [callers EXCEPT ![c] = AfterReturn(c)]
    /\ lastReturn' = Returned("wait", p, promises[p].value)
    /\ lastRequest' = RequestAfterReturn(c, promises[p].value.accessToken)
    /\ promises' = PopReaction(p)
    /\ UNCHANGED <<config, now, token, tokenPromise, requests>>

\* getToken, line 52: a waiter resumes with the rejection of the promise.
WaiterThrows(c) ==
    LET p == callers[c].p IN
    /\ callers[c].pc = "await52"
    /\ NextReaction(c)
    /\ promises[p].state = "rejected"
    /\ callers' = [callers EXCEPT ![c] = IdleCaller]
    /\ lastReturn' = Thrown("wait", p, promises[p].reason)
    /\ lastRequest' = RequestAfterThrow(c, promises[p].reason)
    /\ promises' = PopReaction(p)
    /\ UNCHANGED <<config, now, token, tokenPromise, requests>>

\* request, lines 152-157: the API answers, request returns response.data.
ApiOk(c) ==
    /\ callers[c].pc = "await152"
    /\ ~MicrotasksPending
    /\ callers' = [callers EXCEPT ![c] = IdleCaller]
    /\ lastRequest' = Data
    /\ lastReturn' = NoReturn
    /\ UNCHANGED <<config, now, token, tokenPromise, promises, requests>>

\* request, lines 152 and 158-161: the API call fails (transport error or
\* error status), request logs and rethrows.
ApiFail(c) ==
    /\ callers[c].pc = "await152"
    /\ ~MicrotasksPending
    /\ callers' = [callers EXCEPT ![c] = IdleCaller]
    /\ lastRequest' = Failed(RequestCatch(ApiError))
    /\ lastReturn' = NoReturn
    /\ token' = TokenAfterApiFailure(token)
    /\ UNCHANGED <<config, now, tokenPromise, promises, requests>>

\* Date.now() advances (the clock never goes backwards).
Tick ==
    /\ now + TickMs <= MaxTicks * TickMs
    /\ now' = now + TickMs
    /\ lastReturn' = NoReturn
    /\ lastRequest' = NoRequest
    /\ UNCHANGED <<config, token, tokenPromise, promises, requests, callers>>

\* The token lifecycle under direct getToken calls.
Next ==
    \/ \E c \in Callers : GetTokenAttach(c, "getToken")
    \/ \E c \in Callers : GetTokenCached(c, "getToken")
    \/ \E c \in Callers : GetTokenRefresh(c, "getToken")
    \/ \E i \in 1..Len(requests) : \E r \in Responses(i) : PostOk(i, r)
    \/ \E i \in 1..Len(requests) : PostFail(i, TransportErrorOf(i))
    \/ \E c \in Callers : StarterReturns(c)
    \/ \E c \in Callers : StarterThrows(c)
    \/ \E c \in Callers : WaiterReturns(c)
    \/ \E c \in Callers : WaiterThrows(c)
    \/ Tick

Spec == Init /\ [][Next]_vars

\* The same in the smaller scope.
CallersSmall == 1..NumCallersSmall

NextSmall ==
    \/ \E c \in CallersSmall : GetTokenAttach(c, "getToken")
    \/ \E c \in CallersSmall : GetTokenCached(c, "getToken")
    \/ \E c \in CallersSmall :
          Len(promises) < MaxRefreshSmall /\ GetTokenRefresh(c, "getToken")
    \/ \E i \in 1..Len(requests) : \E r \in Responses(i) : PostOk(i, r)
    \/ \E i \in 1..Len(requests) : PostFail(i, TransportErrorOf(i))
    \/ \E c \in CallersSmall : StarterReturns(c)
    \/ \E c \in CallersSmall : StarterThrows(c)
    \/ \E c \in CallersSmall : WaiterReturns(c)
    \/ \E c \in CallersSmall : WaiterThrows(c)
    \/ (now < MaxTicksSmall * TickMs /\ Tick)

\* The reaction of a settled promise is a microtask: the engine runs it
\* before it returns to the event loop, so a continuation that can run does.
Resume(c) ==
    StarterReturns(c) \/ StarterThrows(c) \/ WaiterReturns(c) \/ WaiterThrows(c)

FairSpec == Init /\ [][NextSmall]_vars /\ \A c \in CallersSmall : WF_vars(Resume(c))

\* The smaller scope with request calls among the getToken calls.
NextRequest ==
    \/ NextSmall
    \/ \E c \in CallersSmall : GetTokenAttach(c, "request")
    \/ \E c \in CallersSmall : GetTokenCached(c, "request")
    \/ \E c \in CallersSmall :
          Len(promises) < MaxRefreshSmall /\ GetTokenRefresh(c, "request")
    \/ \E c \in CallersSmall : ApiOk(c)
    \/ \E c \in CallersSmall : ApiFail(c)

SpecRequest == Init /\ [][NextRequest]_vars

\* ------------------------------------------------- vocabulary of the claims

\* A token is valid while now < expiresAt - 60 s.
Valid(tok, t) == tok # NoToken /\ t < tok.expiresAt - 60 * 1000

\* A refresh token is known, or username and password are both configured.
HasGrantPath ==
    \/ Truthy(TokenRefreshToken(token))
    \/ Truthy(config.refreshToken)
    \/ (Truthy(config.username) /\ Truthy(config.password))

\* A refresh has started and its outcome has not reached its starter yet.
InFlight == \E d \in Callers : callers[d].pc = "await65"

\* This step is an invocation of getToken.
CallStep ==
    \/ \E c \in Callers : callers[c].pc = "idle" /\ callers'[c].pc # "idle"
    \/ lastReturn'.via = "cache"

\* This step ends the suspended getToken invocation of caller c.
ReturnStep(c) ==
    /\ callers[c].pc \in {"await52", "await65"}
    /\ callers'[c].pc \notin {"await52", "await65"}

\* The number of POSTs made to the token endpoint.
PostsMade(reqs) == Cardinality({i \in 1..Len(reqs) : reqs[i].post # "none"})

\* The POSTs waiting for their response.
Outstanding == {i \in 1..Len(requests) : requests[i].post = "pending"}

\* ----------------------------------------------------------------- C1
\* C1 as stated: every batch of getToken calls made while no valid token is
\* cached causes exactly one POST to the token endpoint.
C1_ExactlyOnePostPerBatch ==
    \A i \in 1..Len(requests) : requests[i].post # "none"

C1_FirstCall ==
    (CallStep /\ ~Valid(token, now) /\ ~InFlight) =>
        /\ Len(requests') = Len(requests) + 1
        /\ PostsMade(requests') = PostsMade(requests) + (IF HasGrantPath THEN 1 ELSE 0)

C1_LaterCall ==
    (CallStep /\ ~Valid(token, now) /\ InFlight) =>
        /\ requests' = requests
        /\ \E c, d \in Callers :
              /\ callers[c].pc = "idle"
              /\ callers[d].pc = "await65"
              /\ callers'[c].pc = "await52"
              /\ callers'[c].p = callers[d].p

C1_SameToken ==
    \A c \in Callers :
        (ReturnStep(c) /\ requests[callers[c].p].post = "ok") =>
            /\ lastReturn'.kind = "token"
            /\ lastReturn'.p = callers[c].p
            /\ lastReturn'.accessToken = requests[callers[c].p].access_token

\* C1, amended: of the getToken calls made while no valid token is cached and
\* before the resulting refresh completes, the first makes one POST when a
\* grant path exists and none otherwise, no later one makes a POST, each later
\* one awaits the promise of the first, and when the POST succeeds every one
\* of them returns the access_token of that response.
C1_Deduplication == [][C1_FirstCall /\ C1_LaterCall /\ C1_SameToken]_vars

\* Two callers of one batch: the second has just returned the token.
C1_Witness ==
    /\ lastReturn.via = "wait"
    /\ lastReturn.kind = "token"
    /\ lastReturn.accessToken = requests[lastReturn.p].access_token

\* ----------------------------------------------------------------- C2
\* C2: at most one request to the token endpoint is outstanding, and while
\* one is outstanding the in-flight handle holds its promise, so that every
\* caller that checks the handle finds it set.
C2_AtMostOneOutstanding ==
    /\ Cardinality(Outstanding) <= 1
    /\ \A i \in Outstanding : tokenPromise = i

\* A request is outstanding and a second caller has attached to it.
C2_Witness ==
    \E c \in Callers :
        /\ callers[c].pc = "await52"
        /\ callers[c].p \in Outstanding

\* ----------------------------------------------------------------- C3
\* C3: a getToken call made while the cached token satisfies
\* expiresAt > now + 60 s returns the cached access token in that same step,
\* sends nothing to the token endpoint and leaves the cache as it is.
C3_FreshTokenFromCache ==
    [][(CallStep /\ Valid(token, now)) =>
          /\ lastReturn' = Returned("cache", 0, token)
          /\ requests' = requests
          /\ token' = token
          /\ callers' = callers]_vars

\* A cache hit some time after the token was fetched.
C3_Witness ==
    /\ lastReturn.via = "cache"
    /\ lastReturn.accessToken = token.accessToken
    /\ now > 0
    /\ Len(requests) = 1

\* ----------------------------------------------------------------- C4
C4_StaleStartsOnePost ==
    (CallStep /\ ~Valid(token, now) /\ tokenPromise = 0 /\ HasGrantPath) =>
        /\ PostsMade(requests') = PostsMade(requests) + 1
        /\ requests'[Len(requests')].post = "pending"
        /\ lastReturn' = NoReturn
        /\ \E c \in Callers :
              /\ callers[c].pc = "idle"
              /\ callers'[c].pc = "await65"
              /\ callers'[c].p = Len(requests')

C4_StarterReturnsNewToken ==
    \A c \in Callers :
        (ReturnStep(c) /\ callers[c].pc = "await65") =>
            /\ Len(requests) = callers[c].p
            /\ PostsMade(requests') = PostsMade(requests)
            /\ requests[callers[c].p].post = "ok" =>
                  /\ lastReturn'.kind = "token"
                  /\ lastReturn'.accessToken = requests[callers[c].p].access_token
                  /\ (token # NoToken /\ requests[callers[c].p].access_token # NoAccessToken) =>
                         lastReturn'.accessToken # token.accessToken

\* C4: a getToken call made while the cached token is absent or has
\* expiresAt <= now + 60 s, no refresh is in flight and a grant path exists
\* makes one POST and suspends; no other POST is made before it returns, and
\* on success it returns the access_token of that response, not the cached one.
C4_StaleTriggersRefresh == [][C4_StaleStartsOnePost /\ C4_StarterReturnsNewToken]_vars

\* A stale token was cached and the starter of the second refresh returned
\* the token of the second response.
C4_Witness ==
    /\ lastReturn.via = "start"
    /\ lastReturn.kind = "token"
    /\ lastReturn.p = 2
    /\ requests[1].post = "ok"
    /\ lastReturn.accessToken = requests[2].access_token

\* ----------------------------------------------------------------- C5
\* C5 as stated: every access token getToken returns belongs to a token that
\* is valid at the moment of return.
C5_ReturnedTokenValid ==
    lastReturn.kind = "token" => now < lastReturn.expiresAt - 60 * 1000

C5_CacheHitValid ==
    lastReturn'.via = "cache" =>
        /\ Valid(token, now)
        /\ lastReturn'.accessToken = token.accessToken

C5_RefreshedAsIssued ==
    \A c \in Callers :
        (ReturnStep(c) /\ lastReturn'.kind = "token") =>
            LET pr == promises[callers[c].p] IN
            /\ lastReturn'.accessToken = pr.value.accessToken
            /\ lastReturn'.expiresAt = pr.value.expiresAt
            /\ (now < pr.value.expiresAt - 60 * 1000) <=>
                   (pr.value.expiresIn * 1000 > 60 * 1000 + (now - pr.settledAt))

\* C5, amended: a token returned on a cache hit is valid at the moment of
\* return; a token returned from a refresh, to its starter or to a waiter, is
\* returned as issued, without a freshness check, and is valid at the moment
\* of return exactly when its expires_in exceeds 60 s plus the time elapsed
\* since the response arrived.
C5_ValidUnlessShortLived == [][C5_CacheHitValid /\ C5_RefreshedAsIssued]_vars

\* A waiter has just returned a token that is valid.
C5_Witness ==
    /\ lastReturn.via = "wait"
    /\ lastReturn.kind = "token"
    /\ now < lastReturn.expiresAt - 60 * 1000

\* ----------------------------------------------------------------- C6
\* What the refresh of invocation i failed with: the error the transport
\* threw, or the error requestToken threw before any request.
FailureOf(i) == IF requests[i].post = "error" THEN requests[i].thrown ELSE ConfigError

\* C6: when a refresh fails, its starter and every caller attached to it fail
\* with that same failure, unwrapped; none of them returns a token.
C6_SameFailureToAll ==
    (lastReturn.via \in {"start", "wait"} /\ requests[lastReturn.p].post \in {"error", "none"}) =>
        /\ lastReturn.kind = "error"
        /\ lastReturn.error = FailureOf(lastReturn.p)

\* A waiter has just failed with the error the transport threw.
C6_Witness ==
    /\ lastReturn.via = "wait"
    /\ lastReturn.kind = "error"
    /\ requests[lastReturn.p].post = "error"
    /\ lastReturn.error = requests[lastReturn.p].thrown

\* ----------------------------------------------------------------- C7
\* C7 as stated: once the failure of a refresh has been delivered to its
\* starter, no Token record is cached.
C7_NoTokenAfterFailure ==
    (lastReturn.via = "start" /\ lastReturn.kind = "error") => token = NoToken

\* C7, amended: a failed refresh clears the in-flight handle and leaves the
\* cache as it was when the refresh started, empty or holding the stale
\* token, so that no valid token is cached once the failure is delivered.
C7_FailureKeepsStaleToken ==
    [][\A c \in Callers :
          (ReturnStep(c) /\ callers[c].pc = "await65" /\ lastReturn'.kind = "error") =>
              /\ token' = token
              /\ tokenPromise' = 0
              /\ ~Valid(token', now')]_vars

\* The failure of a refresh was delivered while a stale token was cached.
C7_Witness ==
    /\ lastReturn.via = "start"
    /\ lastReturn.kind = "error"
    /\ token # NoToken
    /\ ~Valid(token, now)

\* ----------------------------------------------------------------- C8
\* The last request to the token endpoint failed and its starter has resumed.
FailureDelivered ==
    /\ Len(requests) > 0
    /\ requests[Len(requests)].post = "error"
    /\ \A c \in Callers : ~(callers[c].pc = "await65" /\ callers[c].p = Len(requests))

C8_NextCallRetries ==
    (FailureDelivered /\ CallStep) =>
        /\ Len(requests') = Len(requests) + 1
        /\ requests'[Len(requests')].post = "pending"
        /\ tokenPromise' = Len(requests')

C8_RetryReturnsItsToken ==
    \A c \in Callers :
        (/\ ReturnStep(c)
         /\ callers[c].pc = "await65"
         /\ callers[c].p > 1
         /\ requests[callers[c].p - 1].post = "error"
         /\ requests[callers[c].p].post = "ok") =>
            /\ lastReturn'.kind = "token"
            /\ lastReturn'.accessToken = requests[callers[c].p].access_token

\* C8: after any number of failed requests to the token endpoint the
\* in-flight handle is empty again once the failure is delivered, the next
\* getToken call sends a new request, and returns its token if it succeeds.
C8_NoPoisonAfterFailure ==
    [][/\ FailureDelivered' => tokenPromise' = 0
       /\ C8_NextCallRetries
       /\ C8_RetryReturnsItsToken]_vars

\* Two requests failed and the third getToken call returned the token of a
\* third request.
C8_Witness ==
    /\ Len(requests) = 3
    /\ requests[1].post = "error"
    /\ requests[2].post = "error"
    /\ requests[3].post = "ok"
    /\ lastReturn.via = "start"
    /\ lastReturn.accessToken = requests[3].access_token

\* ----------------------------------------------------------------- C9
\* A refresh token is known: the cached token has one, or one is configured.
RefreshTokenKnown == Truthy(TokenRefreshToken(token)) \/ Truthy(config.refreshToken)

C9_Precedence ==
    Len(requests') = Len(requests) + 1 =>
        LET r == requests'[Len(requests')] IN
        /\ RefreshTokenKnown => r.grant = "refresh_token" /\ r.post = "pending"
        /\ (~RefreshTokenKnown /\ Truthy(config.username) /\ Truthy(config.password)) =>
              r.grant = "password" /\ r.post = "pending"

C9_NeverPasswordWhenConfigured ==
    (Truthy(config.refreshToken) /\ Truthy(config.username) /\ Truthy(config.password)) =>
        \A i \in 1..Len(requests') : requests'[i].grant # "password"

\* C9: every refresh sends grant_type=refresh_token when a refresh token is
\* known, otherwise grant_type=password when username and password are both
\* configured; with a refresh token and username/password configured no
\* refresh ever sends grant_type=password.
C9_GrantPrecedence == [][C9_Precedence /\ C9_NeverPasswordWhenConfigured]_vars

\* The first refresh used the password grant, its response included a refresh
\* token, and the second refresh used the refresh_token grant.
C9_Witness ==
    /\ Len(requests) >= 2
    /\ requests[1].grant = "password"
    /\ Truthy(requests[1].included)
    /\ requests[2].grant = "refresh_token"

\* ---------------------------------------------------------------- C10
\* The refresh token of the most recent successful response among the first
\* k that included one, or the configured one if none did.
RECURSIVE LatestRefreshToken(_)
LatestRefreshToken(k) ==
    IF k = 0 THEN config.refreshToken
    ELSE IF requests[k].post = "ok" /\ Truthy(requests[k].included)
         THEN requests[k].included
         ELSE LatestRefreshToken(k - 1)

\* C10: the refresh_token parameter of every refresh_token-grant request is
\* the refresh_token of the most recent successful response that included
\* one, or the configured refresh token if no response has included one.
C10_RefreshTokenCarryover ==
    \A i \in 1..Len(requests) :
        requests[i].grant = "refresh_token" =>
            requests[i].refresh_token = LatestRefreshToken(i - 1)

\* The first response superseded the configured refresh token, the second
\* omitted refresh_token, and the third request sent the one of the first.
C10_Witness ==
    /\ Len(requests) = 3
    /\ config.refreshToken = "rt0"
    /\ requests[1].included = RefreshTokenOf(1)
    /\ requests[2].post = "ok"
    /\ requests[2].included = None
    /\ requests[2].refresh_token = RefreshTokenOf(1)
    /\ requests[3].refresh_token = RefreshTokenOf(1)

\* ---------------------------------------------------------------- C11
\* The configuration has no refresh token and lacks username or password.
NoGrantConfigured ==
    /\ ~Truthy(config.refreshToken)
    /\ ~(Truthy(config.username) /\ Truthy(config.password))

\* C11: with no refresh token and without both username and password
\* configured, every getToken call, the first and every later one, the starter
\* and every caller attached to its promise, awaits a promise rejected with
\* the configuration error and fails with it; that error differs from every
\* error of the transport, no request is ever sent to the token endpoint, and
\* nothing is cached.
C11_ConfigFailureWithoutPost ==
    NoGrantConfigured =>
        /\ PostsMade(requests) = 0
        /\ token = NoToken
        /\ \A c \in Callers :
              callers[c].pc # "idle" =>
                  /\ promises[callers[c].p].state = "rejected"
                  /\ promises[callers[c].p].reason = ConfigError
        /\ lastReturn.kind # "token"
        /\ lastReturn.kind = "error" =>
              /\ lastReturn.error = ConfigError
              /\ \A i \in 1..Len(requests) : lastReturn.error # TransportErrorOf(i)

\* Only a username is configured; a second call failed after the first, and a
\* caller attached to the second failed the same way.
C11_Witness ==
    /\ NoGrantConfigured
    /\ Truthy(config.username)
    /\ Len(requests) = 2
    /\ lastReturn.via = "wait"
    /\ lastReturn.p = 2
    /\ lastReturn.error = ConfigError

\* ---------------------------------------------------------------- C12
\* C12: getToken never returns an absent access token, and the cache never
\* holds a token built from a response that lacks access_token or expires_in.
C12_NoPartialSuccess ==
    /\ lastReturn.kind = "token" => lastReturn.accessToken # NoAccessToken
    /\ token # NoToken => (token.accessToken # NoAccessToken /\ token.expiresAt # NaN)

\* ---------------------------------------------------------------- C13
\* This step delivers the failure of the API call to a caller of request.
ApiFailStep ==
    \E c \in Callers :
        /\ callers[c].pc = "await152"
        /\ callers'[c].pc = "idle"
        /\ lastRequest'.kind = "error"

\* C13: the failure of the API call of request changes neither the cached
\* token nor the in-flight handle nor the promise on it, and sends nothing to
\* the token endpoint; a getToken call that follows it while the cached token
\* is valid returns that token from the cache, without a POST.
C13_ApiFailureLeavesToken ==
    [][/\ ApiFailStep =>
              /\ token' = token
              /\ tokenPromise' = tokenPromise
              /\ promises' = promises
              /\ requests' = requests
       /\ (lastRequest = Failed(ApiError) /\ CallStep /\ Valid(token, now)) =>
              /\ lastReturn' = Returned("cache", 0, token)
              /\ requests' = requests
              /\ token' = token]_vars

\* The API call of a request has just failed while a valid token is cached.
C13_Witness ==
    /\ lastRequest = Failed(ApiError)
    /\ Valid(token, now)
    /\ tokenPromise = 0

\* ---------------------------------------------------------------- C14
\* This step sends the API request of caller c.
SendStep(c) == callers[c].pc # "await152" /\ callers'[c].pc = "await152"

\* C14: a request call sends its API request only in a step in which its
\* getToken invocation returned, with exactly the returned access token as
\* Bearer credential; when its getToken invocation throws, request throws
\* the same error and sends no API request.
C14_RequestSendsReturnedToken ==
    [][\A c \in Callers :
          /\ SendStep(c) =>
                /\ callers[c].op = "request" \/ callers[c].pc = "idle"
                /\ lastReturn'.kind = "token"
                /\ lastReturn'.via = "cache" <=> callers[c].pc = "idle"
                /\ lastRequest'.kind = "issued"
                /\ lastRequest'.bearer = lastReturn'.accessToken
          /\ (callers'[c].op = "request" /\ callers[c].pc = "idle") =>
                \/ callers'[c].pc \in {"await52", "await65"}
                \/ SendStep(c)
          /\ (callers[c].op = "request" /\ ReturnStep(c) /\ lastReturn'.kind = "token") =>
                SendStep(c)
          /\ (callers[c].op = "request" /\ ReturnStep(c) /\ lastReturn'.kind = "error") =>
                /\ lastRequest'.kind = "error"
                /\ lastRequest'.error = lastReturn'.error
                /\ callers'[c].pc = "idle"]_vars

\* A request that waited for a refresh started by another caller has just
\* sent its API request with the token of that refresh.
C14_Witness ==
    /\ lastReturn.via = "wait"
    /\ lastRequest.kind = "issued"
    /\ lastRequest.bearer = requests[lastReturn.p].access_token
    /\ lastRequest.bearer # NoAccessToken

\* ---------------------------------------------------------------- C15
\* C15 as stated: a refresh whose failure is delivered to its starter has
\* made one POST to the token endpoint.
C15_OnePostPerFailedRefresh ==
    (lastReturn.via = "start" /\ lastReturn.kind = "error") =>
        requests[lastReturn.p].post = "error"

C15_PostOnlyInCall ==
    PostsMade(requests') # PostsMade(requests) =>
        /\ CallStep
        /\ PostsMade(requests') = PostsMade(requests) + 1

C15_FailedStaysFailed ==
    \A i \in 1..Len(requests) :
        requests[i].post \in {"error", "none"} =>
            (Len(requests') >= i /\ requests'[i] = requests[i])

C15_FailureAfterOneAttempt ==
    \A c \in Callers :
        (ReturnStep(c) /\ lastReturn'.kind = "error") =>
            LET r == requests[callers[c].p] IN
            /\ r.post = (IF r.grant = "none" THEN "none" ELSE "error")
            /\ callers[c].pc = "await65" => Len(requests) = callers[c].p

\* C15, amended: a refresh makes at most one POST and never retries: when
\* the failure of a refresh is delivered, that refresh has made one POST,
\* which failed, if it had a grant to send, and none if no grant path is
\* configured; no POST has been made since it started when the failure
\* reaches its starter, and a POST is only ever made in the step of a
\* getToken call.
C15_NoRetry == [][C15_PostOnlyInCall /\ C15_FailedStaysFailed /\ C15_FailureAfterOneAttempt]_vars

\* Starter and waiter of one refresh have both failed and the one POST of
\* that refresh is the only one made.
C15_Witness ==
    /\ lastReturn.via = "wait"
    /\ lastReturn.kind = "error"
    /\ lastReturn.p = 1
    /\ requests[1].post = "error"
    /\ PostsMade(requests) = 1
    /\ Len(requests) = 1

\* ---------------------------------------------------------------- C16
\* Caller c is suspended in getToken on a promise that has settled.
AwaitsSettled(c) ==
    /\ callers[c].pc \in {"await52", "await65"}
    /\ promises[callers[c].p].state \in {"fulfilled", "rejected"}

\* The promise on the handle has settled.
HandleSettled ==
    /\ tokenPromise # 0
    /\ promises[tokenPromise].state \in {"fulfilled", "rejected"}

\* C16: once the promise of a refresh has settled, with a token or with a
\* failure, the in-flight handle is eventually empty and every caller
\* suspended on that promise eventually leaves getToken.
C16_CompletionReachesAll ==
    /\ HandleSettled ~> (tokenPromise = 0)
    /\ \A c \in Callers : AwaitsSettled(c) ~> (callers[c].pc = "idle")

\* The starter of a failed refresh has resumed and cleared the handle while
\* a waiter of that refresh has not resumed yet.
C16_Witness ==
    \E c \in Callers :
        /\ callers[c].pc = "await52"
        /\ promises[callers[c].p].state = "rejected"
        /\ requests[callers[c].p].post = "error"
        /\ tokenPromise = 0

\* ---------------------------------------------------------------- C17
\* C17: while the POST of a refresh is waiting for its response, no step but
\* the arrival of the response settles its promise, no further POST is made,
\* every getToken call attaches to that promise, no caller attached to it
\* leaves getToken and no call is answered from the cache; the only getToken
\* invocations that can end are those that awaited an earlier refresh.
C17_NoReturnWhilePending ==
    [][\A i \in Outstanding :
          /\ promises'[i].state # "pending" => requests'[i].post # "pending"
          /\ Len(requests') = Len(requests)
          /\ PostsMade(requests') = PostsMade(requests)
          /\ \A c \in Callers :
                (callers[c].pc # "idle" /\ callers[c].p = i) => callers'[c] = callers[c]
          /\ CallStep =>
                \E c \in Callers :
                    /\ callers[c].pc = "idle"
                    /\ callers'[c].pc = "await52"
                    /\ callers'[c].p = i
          /\ lastReturn'.via # "cache"
          /\ lastReturn'.kind # "none" => lastReturn'.p < i]_vars

\* The clock has advanced as far as it goes while a POST is still waiting for
\* its response, with two callers suspended on its promise and a stale token
\* in the cache.
C17_Witness ==
    /\ now = MaxTicks * TickMs
    /\ token # NoToken
    /\ \E i \in Outstanding :
          \E c, d \in Callers :
              /\ callers[c].pc = "await65" /\ callers[c].p = i
              /\ callers[d].pc = "await52" /\ callers[d].p = i

\* ---------------------------------------------------------------- C18
\* Record tok is what the successful response to request i yields: its
\* access_token, the refresh token it included or else the one known before
\* it, and an expiry of its expires_in counted from its arrival at.
BuiltFrom(tok, reqs, i, at) ==
    /\ reqs[i].post = "ok"
    /\ tok.accessToken = reqs[i].access_token
    /\ tok.refreshToken = LatestRefreshToken(i)
    /\ tok.expiresAt = (IF tok.expiresIn = NaN THEN NaN ELSE at + tok.expiresIn * 1000)

\* C18: the cache changes only in the step in which the starter of a refresh
\* resumes with a successful response, and then to the one record built from
\* that response; no other step of getToken or request changes it, so the
\* cached token is always absent or the record of one successful response.
C18_CacheIsOneResponse ==
    [][/\ token' # token =>
              \E c \in Callers :
                  /\ callers[c].pc = "await65"
                  /\ ReturnStep(c)
                  /\ token' = promises[callers[c].p].value
                  /\ BuiltFrom(token', requests, callers[c].p, promises[callers[c].p].settledAt)
       /\ token' # NoToken =>
              \E i \in 1..Len(requests') :
                  /\ requests'[i].post = "ok"
                  /\ token'.accessToken = requests'[i].access_token
                  /\ token'.refreshToken = LatestRefreshToken(i)']_vars

\* The token of a second response has replaced the cached one; the second
\* response had no refresh token, the record carries that of the first.
C18_Witness ==
    /\ lastReturn.via = "start"
    /\ lastReturn.p = 2
    /\ requests[1].post = "ok"
    /\ Truthy(requests[1].included)
    /\ requests[2].included = None
    /\ token.accessToken = requests[2].access_token
    /\ token.accessToken # NoAccessToken
    /\ token.refreshToken = requests[1].included

\* ---------------------------------------------------------------- C19
\* C19: whenever a promise is on the in-flight handle, the cached token is
\* absent or has expiresAt <= now + 60 s; a caller that finds the handle set
\* and awaits it is never kept from a valid cached token.
C19_NoHandleWithValidToken ==
    tokenPromise # 0 => ~Valid(token, now)

\* A refresh is in flight while the cached token is inside the safety margin,
\* not yet expired, and a second caller awaits the handle.
C19_Witness ==
    /\ tokenPromise # 0
    /\ token # NoToken
    /\ token.expiresAt > now
    /\ \E c \in Callers : callers[c].pc = "await52" /\ callers[c].p = tokenPromise

\* ---------------------------------------------------------------- C20
C20_FailureKeepsRecord ==
    \A c \in Callers :
        (ReturnStep(c) /\ callers[c].pc = "await65" /\ lastReturn'.kind = "error") =>
            /\ token' = token
            /\ TokenRefreshToken(token') = TokenRefreshToken(token)

C20_RetryRepeatsGrant ==
    (/\ Len(requests) > 0
     /\ requests[Len(requests)].post # "ok"
     /\ Len(requests') = Len(requests) + 1) =>
        /\ requests'[Len(requests')].grant = requests[Len(requests)].grant
        /\ requests'[Len(requests')].refresh_token = requests[Len(requests)].refresh_token

\* C20: the step that delivers the failure of a refresh to its starter leaves
\* the cached record, its refresh token included, as it was, and the refresh
\* that follows a failed one sends the same grant type and the same refresh
\* token as the failed one.
C20_FailureKeepsRefreshToken == [][C20_FailureKeepsRecord /\ C20_RetryRepeatsGrant]_vars

\* The refresh token learned from the first response, not configured, was
\* sent by a refresh that failed and again by the refresh after it.
C20_Witness ==
    /\ Len(requests) = 3
    /\ ~Truthy(config.refreshToken)
    /\ requests[1].grant = "password"
    /\ requests[1].included = RefreshTokenOf(1)
    /\ requests[2].post = "error"
    /\ requests[2].refresh_token = RefreshTokenOf(1)
    /\ requests[3].grant = "refresh_token"
    /\ requests[3].refresh_token = RefreshTokenOf(1)

====
